---------------------------- MODULE Spec2Model ----------------------------
(***************************************************************************)
(* Token lifecycle of api-auth (src/api-auth/src/auth_handler.rs): login   *)
(* (github_token_handler), rotation (refresh_token_handler), access check  *)
(* (me_handler) and logout (logout_handler) over the refresh_tokens table. *)
(*                                                                         *)
(* Every handler is an async fn: it runs atomically between two awaits on  *)
(* the database, and handlers of different requests interleave at those    *)
(* awaits.  One action of the model is one such segment of one request.    *)
(* Time is in seconds, as in the exp claim of the tokens.                  *)
(***************************************************************************)
EXTENDS Integers, Sequences, FiniteSets, TLC

(* ------------------------------ bounds --------------------------------- *)
\* requests in flight at the same time
MaxCalls == 2
\* refresh tokens minted in one behaviour (values drawn from Uuid::new_v4)
MaxJti == 3
\* clock advances in one behaviour
MaxTicks == 2
\* bit width at which u64 / i64 are modelled (64 in the program)
IdBits == 4

Calls == 1..MaxCalls

(* ------------------------ program constants ---------------------------- *)
\* chrono::Duration::minutes(15), in seconds
AccessTTL == 15 * 60
\* chrono::Duration::days(7), in seconds
RefreshTTL == 7 * 24 * 60 * 60
\* Validation::default(): leeway of the exp check of jsonwebtoken, seconds
Leeway == 60
\* OffsetDateTime::UNIX_EPOCH
UNIX_EPOCH == 0
\* a cookie built without .expires(..) carries no Expires attribute
NoExpiry == -1

\* the amounts by which the clock advances between two steps: long enough for
\* a refresh token to go from fresh to the edge of the leeway, and from there
\* to expired
Steps == {RefreshTTL + Leeway}

RECURSIVE Pow2(_)
Pow2(n) == IF n = 0 THEN 1 ELSE 2 * Pow2(n - 1)

U64_MAX == Pow2(IdBits) - 1
I64_MAX == Pow2(IdBits - 1) - 1

\* GitHubUser.id values GitHub may answer with: one that fits i64, one that
\* does not
UserIds == {7, I64_MAX + 1}
\* the ids that fit i64
SmallIds == {u \in UserIds : u <= I64_MAX}

(* ----------------------- integer conversions --------------------------- *)
\* `user.id as i64`: two's complement reinterpretation of a u64
AsI64(n) == IF n <= I64_MAX THEN n ELSE n - Pow2(IdBits)

\* u64::to_string: the decimal digits, most significant first
RECURSIVE to_string(_)
to_string(n) == IF n < 10 THEN <<n>> ELSE Append(to_string(n \div 10), n % 10)

RECURSIVE DigitsValue(_)
DigitsValue(s) ==
    IF Len(s) = 0 THEN 0
    ELSE 10 * DigitsValue(SubSeq(s, 1, Len(s) - 1)) + s[Len(s)]

\* str::parse::<i64> of a digit string: Err (ParseErr) when empty or when the
\* value does not fit an i64
ParseErr == -1
ParseI64(s) ==
    IF Len(s) = 0 THEN ParseErr
    ELSE IF DigitsValue(s) > I64_MAX THEN ParseErr ELSE DigitsValue(s)

(* ------------------------------ tokens --------------------------------- *)
\* What a cookie can carry: nothing ("absent"), a string that is no JWT
\* ("garbage"), or a JWT with its claims and whether its HS256 signature
\* verifies under state.jwt_secret.  use tells AccessTokenClaims (no jti)
\* from RefreshTokenClaims.
Absent == [form |-> "absent",  use |-> "none", sub |-> <<>>, jti |-> 0, exp |-> 0, sig |-> "none"]
Garbage == [form |-> "garbage", use |-> "none", sub |-> <<>>, jti |-> 0, exp |-> 0, sig |-> "none"]
\* the empty cookie value "" of a clearing cookie
Empty == [form |-> "empty",   use |-> "none", sub |-> <<>>, jti |-> 0, exp |-> 0, sig |-> "none"]

\* encode(&Header::default(), &AccessTokenClaims{sub, exp}, &encoding_key)
AccessToken(sub, exp) ==
    [form |-> "jwt", use |-> "access", sub |-> sub, jti |-> 0, exp |-> exp, sig |-> "ok"]

RefreshTokenMutJti(sub, jti, exp) ==
    [form |-> "jwt", use |-> "refresh", sub |-> sub, jti |-> 0, exp |-> exp, sig |-> "ok"]

\* encode(&Header::default(), &RefreshTokenClaims{sub, jti, exp}, &encoding_key)
RefreshToken(sub, jti, exp) ==
    [form |-> "jwt", use |-> "refresh", sub |-> sub, jti |-> jti, exp |-> exp, sig |-> "ok"]

\* a token whose signature does not verify (tampered with, or signed with
\* another secret)
Forge(t) == [t EXCEPT !.sig = "bad"]

\* jsonwebtoken::decode with Validation::default(): the token must split
\* into three parts, its signature must verify, exp must not be more than
\* leeway seconds in the past, and the claims must deserialize into the
\* wanted struct (RefreshTokenClaims needs jti; unknown fields are ignored).
DecodeMutNoExp(t, want, clock) ==
    IF t.form # "jwt" THEN "InvalidToken"
    ELSE IF t.sig # "ok" THEN "InvalidSignature"
    ELSE IF want = "refresh" /\ t.use # "refresh" THEN "Json"
    ELSE "Ok"

DecodeMutNoLeeway(t, want, clock) ==
    IF t.form # "jwt" THEN "InvalidToken"
    ELSE IF t.sig # "ok" THEN "InvalidSignature"
    ELSE IF t.exp < clock THEN "ExpiredSignature"
    ELSE IF want = "refresh" /\ t.use # "refresh" THEN "Json"
    ELSE "Ok"

Decode(t, want, clock) ==
    IF t.form # "jwt" THEN "InvalidToken"
    ELSE IF t.sig # "ok" THEN "InvalidSignature"
    ELSE IF t.exp < clock - Leeway THEN "ExpiredSignature"
    ELSE IF want = "refresh" /\ t.use # "refresh" THEN "Json"
    ELSE "Ok"


(* ------------------------------ cookies -------------------------------- *)
NoDomain == "none"

\* A path is the sequence of its segments: "/" is <<>>.
RootPath == <<>>
RefreshPath == <<"api", "v1", "auth", "refresh">>
\* a cookie built without .path(..) carries no Path attribute
NoPath == <<"">>

\* Cookie::build((name, value)): a cookie with no attribute set; domain is
\* the Domain attribute (NoDomain: none), expires the Expires attribute
\* (NoExpiry: none)
Build(name, value) ==
    [name |-> name, value |-> value, path |-> NoPath, secure |-> FALSE,
     http_only |-> FALSE, same_site |-> "", domain |-> NoDomain,
     expires |-> NoExpiry]

\* if let Some(domain) = &state.cookie_domain { builder.domain(domain) }
with_domain(builder, domain) ==
    IF domain # NoDomain THEN [builder EXCEPT !.domain = domain] ELSE builder

create_cookiesMutPath(access_token, refresh_token, domain, clock) ==
    LET access_cookie_builder ==
            [Build("__Secure-access_token", access_token) EXCEPT
                !.path = RootPath, !.secure = TRUE, !.http_only = TRUE,
                !.same_site = "None"]
        refresh_cookie_builder ==
            [Build("__Secure-refresh_token", refresh_token) EXCEPT
                !.path = RootPath, !.secure = TRUE,
                !.http_only = TRUE, !.same_site = "None",
                !.expires = clock + RefreshTTL]
    IN  << with_domain(access_cookie_builder, domain),
           with_domain(refresh_cookie_builder, domain) >>

create_cookies(access_token, refresh_token, domain, clock) ==
    LET access_cookie_builder ==
            [Build("__Secure-access_token", access_token) EXCEPT
                !.path = RootPath, !.secure = TRUE, !.http_only = TRUE,
                !.same_site = "None"]
        refresh_cookie_builder ==
            [Build("__Secure-refresh_token", refresh_token) EXCEPT
                !.path = RefreshPath, !.secure = TRUE,
                !.http_only = TRUE, !.same_site = "None",
                !.expires = clock + RefreshTTL]
    IN  << with_domain(access_cookie_builder, domain),
           with_domain(refresh_cookie_builder, domain) >>

\* the two clearing cookies of logout_handler
clear_cookiesMutNoExpiry(domain) ==
    LET access_cookie_builder ==
            [Build("__Secure-access_token", Empty) EXCEPT
                !.path = RootPath, !.secure = TRUE, !.http_only = TRUE,
                !.same_site = "None", !.expires = UNIX_EPOCH]
        refresh_cookie_builder ==
            [Build("__Secure-refresh_token", Empty) EXCEPT
                !.path = RefreshPath, !.secure = TRUE,
                !.http_only = TRUE, !.same_site = "None"]
    IN  << with_domain(access_cookie_builder, domain),
           with_domain(refresh_cookie_builder, domain) >>

clear_cookiesMutNoDomain(domain) ==
    LET access_cookie_builder ==
            [Build("__Secure-access_token", Empty) EXCEPT
                !.path = RootPath, !.secure = TRUE, !.http_only = TRUE,
                !.same_site = "None", !.expires = UNIX_EPOCH]
        refresh_cookie_builder ==
            [Build("__Secure-refresh_token", Empty) EXCEPT
                !.path = RefreshPath, !.secure = TRUE,
                !.http_only = TRUE, !.same_site = "None",
                !.expires = UNIX_EPOCH]
    IN  << access_cookie_builder, refresh_cookie_builder >>

clear_cookies(domain) ==
    LET access_cookie_builder ==
            [Build("__Secure-access_token", Empty) EXCEPT
                !.path = RootPath, !.secure = TRUE, !.http_only = TRUE,
                !.same_site = "None", !.expires = UNIX_EPOCH]
        refresh_cookie_builder ==
            [Build("__Secure-refresh_token", Empty) EXCEPT
                !.path = RefreshPath, !.secure = TRUE,
                !.http_only = TRUE, !.same_site = "None",
                !.expires = UNIX_EPOCH]
    IN  << with_domain(access_cookie_builder, domain),
           with_domain(refresh_cookie_builder, domain) >>

(* ----------------------- the refresh_tokens table ---------------------- *)
Row(jti, user_id, expires_at) ==
    [jti |-> jti, user_id |-> user_id, expires_at |-> expires_at]

\* DELETE FROM refresh_tokens WHERE jti = ?  (one statement: the rows are
\* removed and counted atomically)
rows_affectedMutOne(tbl, jti) == 1

rows_affected(tbl, jti) == Cardinality({r \in tbl : r.jti = jti})

DeleteMutCascade(tbl, jti) ==
    IF \E r \in tbl : r.jti = jti THEN {r \in tbl : r.jti # jti} ELSE {}

DeleteMutKeep(tbl, jti) == tbl

Delete(tbl, jti) == {r \in tbl : r.jti # jti}

\* INSERT INTO refresh_tokens (jti, user_id, expires_at) VALUES (?, ?, ?)
\* ON DUPLICATE KEY UPDATE jti = VALUES(jti), expires_at = VALUES(expires_at)
\* (jti is the key; the update leaves user_id as it was)
UpsertMutSubject(tbl, jti, user_id, expires_at) ==
    IF \E r \in tbl : r.jti = jti
    THEN {IF r.jti = jti THEN [r EXCEPT !.expires_at = expires_at] ELSE r : r \in tbl}
    ELSE tbl \cup {Row(jti, 0, expires_at)}

Upsert(tbl, jti, user_id, expires_at) ==
    IF \E r \in tbl : r.jti = jti
    THEN {IF r.jti = jti THEN [r EXCEPT !.jti = jti, !.expires_at = expires_at]
          ELSE r : r \in tbl}
    ELSE tbl \cup {Row(jti, user_id, expires_at)}

(* ----------------------------- redirects ------------------------------- *)
\* a redirect_to string: one that url::Url does not parse, or a URL with a
\* scheme and possibly a host
BadUrl == [scheme |-> "", host |-> "", parses |-> FALSE]
Url(scheme, host) == [scheme |-> scheme, host |-> host, parses |-> TRUE]
\* payload.redirect_to.unwrap_or_else(..)
DefaultRedirect == Url("https", "auth-debug.pages.dev")
NoRedirect == [scheme |-> "", host |-> "", parses |-> FALSE, given |-> FALSE]
Given(u) == [scheme |-> u.scheme, host |-> u.host, parses |-> u.parses, given |-> TRUE]

\* format!("{}://{}", scheme, host) compared with each allowed origin
is_allowed_redirect(url, allowed) ==
    /\ url.parses
    /\ url.host # ""
    /\ <<url.scheme, url.host>> \in allowed

\* state.allowed_redirects (ALLOWED_REDIRECTS), as <<scheme, host>> origins
AllowedRedirects == {<<"https", "app.example">>}

RedirectInputs ==
    {NoRedirect, Given(Url("https", "app.example")),
     Given(Url("https", "evil.example")), Given(BadUrl)}


\* what the exchange of the code and the fetch of the profile can give:
\* the request fails, the reply does not deserialize, GitHub answers the
\* exchange with {error, error_description, error_uri}, or all goes well and
\* the profile carries id
GitHubReplies(ids) ==
    {[r |-> x, id |-> 0] :
        x \in {"send_error", "bad_json", "oauth_error", "user_send_error", "user_bad_json"}}
    \cup {[r |-> "ok", id |-> u] : u \in ids}

(* ------------------------------- state --------------------------------- *)
VARIABLES
    now,             \* Utc::now().timestamp()
    ticks,           \* how often the clock has advanced
    cookie_domain,   \* AppState.cookie_domain (COOKIE_DOMAIN)
    refresh_tokens,  \* the rows of table refresh_tokens
    users,           \* the ids of the rows of table users
    issued,          \* the tokens sent to a client in a Set-Cookie header
    call,            \* the requests in flight: position, locals, response
    parent,          \* history: jti -> the jti it replaced (0: a login)
    consumed,        \* history: jti -> refresh calls whose DELETE removed it
    revoked          \* history: jtis whose DELETE a logout has executed

vars == <<now, ticks, cookie_domain, refresh_tokens, users, issued, call,
          parent, consumed, revoked>>

\* Uuid::new_v4(): a value never returned before; the n-th row written gets n
Minted == Len(parent)

Jtis(tbl) == {r.jti : r \in tbl}

\* the jtis a completed rotation has replaced
Rotated == {parent[j] : j \in DOMAIN parent} \ {0}

Idle ==
    [op |-> "none", pc |-> "idle", cookie |-> Absent, uid |-> 0, rows |-> -1,
     status |-> 0, kind |-> "none", body |-> "", headers |-> <<>>,
     user_id |-> <<>>, new_jti |-> 0,
     before |-> {},
     afterRotate |-> FALSE, afterRevoke |-> FALSE,
     jar |-> <<>>]

Init ==
    /\ now = 0
    /\ ticks = 0
    /\ cookie_domain \in {NoDomain, "example.com"}
    /\ refresh_tokens = {}
    /\ users = {}
    /\ issued = {}
    /\ call = [c \in Calls |-> Idle]
    /\ parent = <<>>
    /\ consumed = <<>>
    /\ revoked = {}

FinishMutUnauthorized(c, status, kind, body, headers) ==
    call' = [call EXCEPT ![c].pc = "done", ![c].status = 401,
                         ![c].kind = kind, ![c].body = body,
                         ![c].headers = headers]

\* the handler returns: Err((status, body)) or Ok((headers, status))
Finish(c, status, kind, body, headers) ==
    call' = [call EXCEPT ![c].pc = "done", ![c].status = status,
                         ![c].kind = kind, ![c].body = body,
                         ![c].headers = headers]

\* what a client can put into a cookie: nothing, a string that is no token,
\* a token it was sent, or such a token with a signature that does not verify
Presentable(use) ==
    {Absent, Garbage} \cup {t \in issued : t.use = use}
                      \cup {Forge(t) : t \in {i \in issued : i.use = use}}

(* ------------------------------- clock --------------------------------- *)
Tick(d) ==
    /\ ticks < MaxTicks
    /\ now' = now + d
    /\ ticks' = ticks + 1
    /\ UNCHANGED <<cookie_domain, refresh_tokens, users, issued, call, parent,
                   consumed, revoked>>

(* ------------------------ github_token_handler ------------------------- *)
\* lines 82-117: the redirect check, the exchange of the code and the fetch
\* of the profile
LoginStart(c, redirect, gh) ==
    /\ call[c].pc = "idle"
    /\ LET redirect_to == IF redirect.given THEN redirect ELSE DefaultRedirect
           begun == [call EXCEPT ![c].op = "login"]
           end(status, kind, body) ==
               call' = [begun EXCEPT ![c].pc = "done", ![c].status = status,
                                     ![c].kind = kind, ![c].body = body]
       IN  IF ~is_allowed_redirect(redirect_to, AllowedRedirects)
           THEN end(400, "RedirectNotAllowed", "redirect not allowed")
           ELSE IF gh.r \in {"send_error", "bad_json", "user_send_error", "user_bad_json"}
           THEN end(500, "Upstream", gh.r)
           ELSE IF gh.r = "oauth_error"
           THEN end(400, "GitHubError", "GitHub returned an error")
           ELSE call' = [begun EXCEPT ![c].pc = "upsert_user", ![c].uid = gh.id]
    /\ UNCHANGED <<now, ticks, cookie_domain, refresh_tokens, users, issued,
                   parent, consumed, revoked>>

\* lines 121-138: INSERT INTO users .. ON DUPLICATE KEY UPDATE
LoginUpsertUser(c, db_ok) ==
    /\ call[c].op = "login" /\ call[c].pc = "upsert_user"
    /\ IF db_ok
       THEN /\ users' = users \cup {AsI64(call[c].uid)}
            /\ call' = [call EXCEPT ![c].pc = "persist"]
       ELSE /\ users' = users
            /\ Finish(c, 500, "Store", "db error", <<>>)
    /\ UNCHANGED <<now, ticks, cookie_domain, refresh_tokens, issued, parent,
                   consumed, revoked>>

\* lines 140-183: both tokens are encoded, the row of the refresh token is
\* written and the cookies are returned
LoginPersist(c, sign_ok, db_ok) ==
    /\ call[c].op = "login" /\ call[c].pc = "persist"
    /\ LET user_id_str == to_string(call[c].uid)
           jti == Minted + 1
           access_token == AccessToken(user_id_str, now + AccessTTL)
           refresh_token == RefreshToken(user_id_str, jti, now + RefreshTTL)
           expires_at == now + RefreshTTL
       IN  /\ Minted < MaxJti
           /\ IF ~sign_ok
              THEN /\ Finish(c, 500, "Signing", "encode error", <<>>)
                   /\ UNCHANGED <<refresh_tokens, issued, parent, consumed>>
              ELSE IF ~db_ok
              THEN /\ Finish(c, 500, "Store", "db error", <<>>)
                   /\ UNCHANGED <<refresh_tokens, issued, parent, consumed>>
              ELSE /\ refresh_tokens' =
                         Upsert(refresh_tokens, jti, AsI64(call[c].uid), expires_at)
                   /\ issued' = issued \cup {access_token, refresh_token}
                   /\ parent' = Append(parent, 0)
                   /\ consumed' = Append(consumed, 0)
                   /\ call' = [call EXCEPT
                         ![c].pc = "done", ![c].status = 200, ![c].kind = "Ok",
                         ![c].new_jti = jti,
                         ![c].headers = create_cookies(access_token, refresh_token,
                                                       cookie_domain, now)]
    /\ UNCHANGED <<now, ticks, cookie_domain, users, revoked>>

(* ------------------------ refresh_token_handler ------------------------ *)
\* the refresh tokens a client was sent, untampered
IsIssuedRefresh(t) == t.form = "jwt" /\ t.use = "refresh" /\ t.sig = "ok"

\* lines 193-202: the cookie is read and the token is decoded; what the
\* handler answers, or that it goes on to the DELETE.  The handler holds
\* state.db (tbl) from its first line.
refresh_decodeMutStoreFirst(tok, tbl, clock) ==
    IF tok = Absent
    THEN [pc |-> "done", status |-> 401, kind |-> "MissingCredential",
          body |-> "Missing refresh token"]
    ELSE IF ~\E r \in tbl : r.jti = tok.jti
    THEN [pc |-> "done", status |-> 401, kind |-> "Replayed",
          body |-> "Invalid refresh token"]
    ELSE IF Decode(tok, "refresh", clock) # "Ok"
    THEN [pc |-> "done", status |-> 401, kind |-> Decode(tok, "refresh", clock),
          body |-> "Invalid refresh token"]
    ELSE [pc |-> "consume", status |-> 0, kind |-> "none", body |-> ""]

refresh_decode(tok, tbl, clock) ==
    IF tok = Absent
    THEN [pc |-> "done", status |-> 401, kind |-> "MissingCredential",
          body |-> "Missing refresh token"]
    ELSE IF Decode(tok, "refresh", clock) # "Ok"
    THEN [pc |-> "done", status |-> 401, kind |-> Decode(tok, "refresh", clock),
          body |-> "Invalid refresh token"]
    ELSE [pc |-> "consume", status |-> 0, kind |-> "none", body |-> ""]

RefreshStart(c, tok) ==
    /\ call[c].pc = "idle"
    /\ LET res == refresh_decode(tok, refresh_tokens, now)
       IN  call' = [call EXCEPT
               ![c].op = "refresh", ![c].cookie = tok, ![c].before = refresh_tokens,
               ![c].afterRotate = IsIssuedRefresh(tok) /\ tok.jti \in Rotated,
               ![c].afterRevoke = IsIssuedRefresh(tok) /\ tok.jti \in revoked,
               ![c].pc = res.pc, ![c].status = res.status,
               ![c].kind = res.kind, ![c].body = res.body]
    /\ UNCHANGED <<now, ticks, cookie_domain, refresh_tokens, users, issued,
                   parent, consumed, revoked>>

\* lines 205-215: DELETE .. WHERE jti = ? and the test of rows_affected()
RefreshConsume(c, db_ok) ==
    /\ call[c].op = "refresh" /\ call[c].pc = "consume"
    /\ LET jti == call[c].cookie.jti
           deleted == rows_affected(refresh_tokens, jti)
       IN  IF ~db_ok
           THEN /\ Finish(c, 500, "Store", "db error", <<>>)
                /\ UNCHANGED <<refresh_tokens, consumed>>
           ELSE /\ refresh_tokens' = Delete(refresh_tokens, jti)
                /\ IF deleted = 0
                   THEN /\ call' = [call EXCEPT
                              ![c].pc = "done", ![c].status = 401,
                              ![c].kind = "Replayed", ![c].rows = deleted,
                              ![c].body = "Invalid refresh token"]
                        /\ UNCHANGED consumed
                   ELSE /\ call' = [call EXCEPT ![c].pc = "issue", ![c].rows = deleted]
                        /\ consumed' = [consumed EXCEPT ![jti] = @ + 1]
    /\ UNCHANGED <<now, ticks, cookie_domain, users, issued, parent,
                   revoked>>

\* lines 218-270: the new pair is encoded, the row of the new refresh token
\* is written and the cookies are returned
RefreshPersist(c, sign_ok, db_ok) ==
    /\ call[c].op = "refresh" /\ call[c].pc = "issue"
    /\ LET user_id_str == call[c].cookie.sub
           new_jti == Minted + 1
           new_access_token == AccessToken(user_id_str, now + AccessTTL)
           new_refresh_token == RefreshToken(user_id_str, new_jti, now + RefreshTTL)
           expires_at == now + RefreshTTL
           user_id == ParseI64(user_id_str)
       IN  /\ Minted < MaxJti
           /\ IF ~sign_ok
              THEN /\ Finish(c, 500, "Signing", "encode error", <<>>)
                   /\ UNCHANGED <<refresh_tokens, issued, parent, consumed>>
              ELSE IF user_id = ParseErr
              THEN /\ Finish(c, 500, "UserIdFormat", "Invalid user ID format in token", <<>>)
                   /\ UNCHANGED <<refresh_tokens, issued, parent, consumed>>
              ELSE IF ~db_ok
              THEN /\ Finish(c, 500, "Store", "db error", <<>>)
                   /\ UNCHANGED <<refresh_tokens, issued, parent, consumed>>
              ELSE /\ refresh_tokens' = Upsert(refresh_tokens, new_jti, user_id, expires_at)
                   /\ issued' = issued \cup {new_access_token, new_refresh_token}
                   /\ parent' = Append(parent, call[c].cookie.jti)
                   /\ consumed' = Append(consumed, 0)
                   /\ call' = [call EXCEPT
                         ![c].pc = "done", ![c].status = 200, ![c].kind = "Ok",
                         ![c].new_jti = new_jti,
                         ![c].headers = create_cookies(new_access_token, new_refresh_token,
                                                       cookie_domain, now)]
    /\ UNCHANGED <<now, ticks, cookie_domain, users, revoked>>

(* ----------------------------- me_handler ------------------------------ *)
\* lines 279-291: the response to an access cookie.  The handler holds
\* state.db (tbl) like every handler.
me_handlerMutSession(tok, tbl, clock) ==
    IF tok = Absent
    THEN [status |-> 401, kind |-> "MissingCredential", body |-> "Missing access token",
          user_id |-> <<>>]
    ELSE IF Decode(tok, "access", clock) # "Ok"
    THEN [status |-> 401, kind |-> Decode(tok, "access", clock),
          body |-> "Invalid access token", user_id |-> <<>>]
    ELSE IF ~\E r \in tbl : r.user_id = ParseI64(tok.sub)
    THEN [status |-> 401, kind |-> "NoSession",
          body |-> "Invalid access token", user_id |-> <<>>]
    ELSE [status |-> 200, kind |-> "Ok", body |-> "MeResponse", user_id |-> tok.sub]

me_handler(tok, tbl, clock) ==
    IF tok = Absent
    THEN [status |-> 401, kind |-> "MissingCredential", body |-> "Missing access token",
          user_id |-> <<>>]
    ELSE IF Decode(tok, "access", clock) # "Ok"
    THEN [status |-> 401, kind |-> Decode(tok, "access", clock),
          body |-> "Invalid access token", user_id |-> <<>>]
    ELSE [status |-> 200, kind |-> "Ok", body |-> "MeResponse", user_id |-> tok.sub]

Me(c, tok) ==
    /\ call[c].pc = "idle"
    /\ LET res == me_handler(tok, refresh_tokens, now)
       IN  call' = [call EXCEPT
               ![c].op = "me", ![c].cookie = tok, ![c].pc = "done",
               ![c].before = refresh_tokens,
               ![c].status = res.status, ![c].kind = res.kind,
               ![c].body = res.body, ![c].user_id = res.user_id]
    /\ UNCHANGED <<now, ticks, cookie_domain, refresh_tokens, users, issued,
                   parent, consumed, revoked>>

(* ---------------------------- logout_handler --------------------------- *)
\* lines 300-302: whether the DELETE is reached: the refresh cookie is there
\* and decode(.., &Validation::default()) is Ok
logout_decodesMutLenient(tok, clock) ==
    tok.form = "jwt" /\ tok.use = "refresh"

logout_decodes(tok, clock) ==
    tok # Absent /\ Decode(tok, "refresh", clock) = "Ok"

LogoutStart(c, tok) ==
    /\ call[c].pc = "idle"
    /\ LET begun == [call EXCEPT ![c].op = "logout", ![c].cookie = tok]
       IN  IF logout_decodes(tok, now)
           THEN call' = [begun EXCEPT ![c].pc = "delete"]
           ELSE call' = [begun EXCEPT
                    ![c].pc = "done", ![c].status = 200, ![c].kind = "Ok",
                    ![c].headers = clear_cookies(cookie_domain)]
    /\ UNCHANGED <<now, ticks, cookie_domain, refresh_tokens, users, issued,
                   parent, consumed, revoked>>

\* lines 303-328: let _ = DELETE .. WHERE jti = ?, then the clearing cookies
LogoutDelete(c, db_ok) ==
    /\ call[c].op = "logout" /\ call[c].pc = "delete"
    /\ LET jti == call[c].cookie.jti
       IN  IF db_ok
              THEN /\ refresh_tokens' = Delete(refresh_tokens, jti)
                   /\ revoked' = IF IsIssuedRefresh(call[c].cookie)
                                 THEN revoked \cup {jti} ELSE revoked
                   /\ call' = [call EXCEPT
                         ![c].pc = "done", ![c].status = 200, ![c].kind = "Ok",
                         ![c].rows = rows_affected(refresh_tokens, jti),
                         ![c].headers = clear_cookies(cookie_domain)]
              ELSE /\ UNCHANGED <<refresh_tokens, revoked>>
                   /\ call' = [call EXCEPT
                         ![c].pc = "done", ![c].status = 200, ![c].kind = "Ok",
                         ![c].headers = clear_cookies(cookie_domain)]
    /\ UNCHANGED <<now, ticks, cookie_domain, users, issued, parent, consumed>>

\* the response has been sent: the slot takes the next request
Return(c) ==
    /\ call[c].pc = "done"
    /\ call' = [call EXCEPT ![c] = Idle]
    /\ UNCHANGED <<now, ticks, cookie_domain, refresh_tokens, users, issued,
                   parent, consumed, revoked>>

(* --------------------------- specifications ---------------------------- *)
\* Spec: requests arrive one at a time (slot 1), with every input a client
\* or GitHub can send, while the clock advances.
Next ==
    \/ \E d \in Steps : Tick(d)
    \/ \E redirect \in RedirectInputs, gh \in GitHubReplies(SmallIds) : LoginStart(1, redirect, gh)
    \/ \E db_ok \in BOOLEAN : LoginUpsertUser(1, db_ok)
    \/ \E sign_ok \in BOOLEAN, db_ok \in BOOLEAN : LoginPersist(1, sign_ok, db_ok)
    \/ \E tok \in Presentable("refresh") : RefreshStart(1, tok)
    \/ \E db_ok \in BOOLEAN : RefreshConsume(1, db_ok)
    \/ \E sign_ok \in BOOLEAN, db_ok \in BOOLEAN : RefreshPersist(1, sign_ok, db_ok)
    \/ \E tok \in Presentable("access") : Me(1, tok)
    \/ \E tok \in Presentable("refresh") : LogoutStart(1, tok)
    \/ \E db_ok \in BOOLEAN : LogoutDelete(1, db_ok)
    \/ Return(1)

Spec == Init /\ [][Next]_vars

\* SpecConc: up to MaxCalls requests overlap and interleave at their awaits
\* on the database; the clients send the tokens they were sent.
\* Requests are numbered as they come in: a new one takes the lowest free slot.
Free(c) == call[c].pc = "idle" /\ \A d \in Calls : d < c => call[d].pc # "idle"

SentRefresh == {t \in issued : t.use = "refresh"}

LoginOk == [r |-> "ok", id |-> 7]

NextConc ==
    \/ \E c \in Calls : Free(c) /\ LoginStart(c, Given(Url("https", "app.example")), LoginOk)
    \/ \E c \in Calls, db_ok \in BOOLEAN : LoginUpsertUser(c, db_ok)
    \/ \E c \in Calls, sign_ok \in BOOLEAN, db_ok \in BOOLEAN : LoginPersist(c, sign_ok, db_ok)
    \/ \E c \in Calls, tok \in SentRefresh : Free(c) /\ RefreshStart(c, tok)
    \/ \E c \in Calls, db_ok \in BOOLEAN : RefreshConsume(c, db_ok)
    \/ \E c \in Calls, sign_ok \in BOOLEAN, db_ok \in BOOLEAN : RefreshPersist(c, sign_ok, db_ok)
    \/ \E c \in Calls, tok \in SentRefresh : Free(c) /\ LogoutStart(c, tok)
    \/ \E c \in Calls, db_ok \in BOOLEAN : LogoutDelete(c, db_ok)
    \/ \E c \in Calls : Return(c)

InitConc == Init /\ cookie_domain = "example.com"

SpecConc == InitConc /\ [][NextConc]_vars

\* SpecIds: requests arrive one at a time, the clients send the tokens they
\* were sent, and GitHub answers with any of the ids, also one that does not
\* fit an i64.
NextIds ==
    \/ \E d \in Steps : Tick(d)
    \/ \E id \in UserIds :
          LoginStart(1, Given(Url("https", "app.example")), [r |-> "ok", id |-> id])
    \/ \E db_ok \in BOOLEAN : LoginUpsertUser(1, db_ok)
    \/ \E sign_ok \in BOOLEAN, db_ok \in BOOLEAN : LoginPersist(1, sign_ok, db_ok)
    \/ \E tok \in SentRefresh : RefreshStart(1, tok)
    \/ \E db_ok \in BOOLEAN : RefreshConsume(1, db_ok)
    \/ \E sign_ok \in BOOLEAN, db_ok \in BOOLEAN : RefreshPersist(1, sign_ok, db_ok)
    \/ \E tok \in {t \in issued : t.use = "access"} : Me(1, tok)
    \/ \E tok \in SentRefresh : LogoutStart(1, tok)
    \/ \E db_ok \in BOOLEAN : LogoutDelete(1, db_ok)
    \/ Return(1)

SpecIds == InitConc /\ [][NextIds]_vars

\* SpecPersist: the INSERT .. ON DUPLICATE KEY UPDATE statement on its own,
\* run once and then once more with the same values, from every table with
\* at most one row per jti (jti is the key) and for every jti, user_id and
\* time of the bounds.
StoredIds == {AsI64(u) : u \in UserIds}
Tables ==
    {tbl \in SUBSET {Row(j, u, e) : j \in 1..MaxJti, u \in StoredIds,
                                    e \in {RefreshTTL, RefreshTTL + Leeway + RefreshTTL}} :
        \A r1, r2 \in tbl : r1.jti = r2.jti => r1 = r2}

InitPersist ==
    /\ now \in {0, RefreshTTL + Leeway}
    /\ ticks = 0
    /\ cookie_domain = NoDomain
    /\ refresh_tokens \in Tables
    /\ users = {}
    /\ issued = {}
    /\ \E jti \in 1..MaxJti, user_id \in StoredIds :
          call = [c \in Calls |->
                    IF c = 1
                    THEN [Idle EXCEPT !.op = "persist", !.pc = "persist",
                                      !.new_jti = jti, !.uid = user_id]
                    ELSE Idle]
    /\ parent = <<>>
    /\ consumed = <<>>
    /\ revoked = {}

\* the statement is executed with the values of the call
Persist(c) ==
    /\ call[c].op = "persist" /\ call[c].pc = "persist"
    /\ refresh_tokens' =
          Upsert(refresh_tokens, call[c].new_jti, call[c].uid, now + RefreshTTL)
    /\ call' = [call EXCEPT ![c].pc = "persisted", ![c].before = refresh_tokens]
    /\ UNCHANGED <<now, ticks, cookie_domain, users, issued, parent, consumed,
                   revoked>>

\* and once more
PersistAgain(c) ==
    /\ call[c].op = "persist" /\ call[c].pc = "persisted"
    /\ refresh_tokens' =
          Upsert(refresh_tokens, call[c].new_jti, call[c].uid, now + RefreshTTL)
    /\ call' = [call EXCEPT ![c].pc = "persisted again", ![c].before = refresh_tokens]
    /\ UNCHANGED <<now, ticks, cookie_domain, users, issued, parent, consumed,
                   revoked>>

NextPersist == Persist(1) \/ PersistAgain(1)

SpecPersist == InitPersist /\ [][NextPersist]_vars

(* ------------------------------ vocabulary ----------------------------- *)
\* the error taxonomy of the specification, by the place where the handler
\* returns and, for a token that does not decode, by the error of decode
ErrorKind(kind) ==
    CASE kind = "MissingCredential" -> "MissingCredential"
      [] kind \in {"InvalidToken", "InvalidSignature", "Json"} -> "MalformedToken"
      [] kind = "ExpiredSignature" -> "ExpiredToken"
      [] kind = "Replayed" -> "ReplayedToken"
      [] kind = "Store" -> "StoreUnavailable"
      [] kind \in {"Signing", "UserIdFormat"} -> "SigningFailure"
      [] kind \in {"Upstream", "GitHubError"} -> "UpstreamError"
      [] OTHER -> kind

Done(c) == call[c].pc = "done"
\* a refresh call that presents the untampered refresh token of jti j
Presents(c, j) ==
    call[c].op = "refresh" /\ IsIssuedRefresh(call[c].cookie) /\ call[c].cookie.jti = j
\* the call ended in Rotated: the new pair was persisted and returned
RotatedBy(c) == call[c].op = "refresh" /\ Done(c) /\ call[c].status = 200
\* the rotations of jti j that were completed
RotationsOf(j) == {k \in DOMAIN parent : parent[k] = j}

(* -------------------------------- C1 ----------------------------------- *)
\* The refresh calls in the slots that present jti j.  The race is among
\* them alone when they have all returned, no earlier refresh call took j
\* and no logout has run its DELETE on j.
Racers(j) == {c \in Calls : Presents(c, j)}
FairRace(j) ==
    /\ Racers(j) # {}
    /\ \A c \in Racers(j) : Done(c) /\ ~call[c].afterRotate
    /\ j \notin revoked
    /\ consumed[j] = Cardinality({c \in Racers(j) : call[c].rows = 1})

\* C1 as stated: of the refresh calls that present the same valid refresh
\* credential, exactly one observes consume(jti) = true and reaches Rotated,
\* and every other one observes false and is rejected.
C1_Original ==
    \A j \in DOMAIN parent :
        FairRace(j) =>
            /\ Cardinality({c \in Racers(j) : call[c].rows = 1 /\ RotatedBy(c)}) = 1
            /\ \A c \in Racers(j) :
                  \/ call[c].rows = 1 /\ RotatedBy(c)
                  \/ call[c].rows = 0 /\ call[c].status = 401

\* C1 as amended: under every interleaving at most one refresh call observes
\* consume(jti) = true for a jti, and only that call can reach Rotated (it
\* does unless signing, the subject or persist fails); every other call
\* whose DELETE the store executes observes false and is rejected with
\* ReplayedToken, so no two rotations both succeed for one jti; and when the
\* store executes the DELETE of every one of the calls, exactly one of them
\* observes true, and when none of the calls ends in StoreUnavailable or
\* SigningFailure exactly one of them reaches Rotated.
C1_AtMostOneRotation ==
    \A j \in DOMAIN parent :
        /\ consumed[j] <= 1
        /\ Cardinality(RotationsOf(j)) <= 1
        /\ Cardinality({c \in Racers(j) : call[c].rows = 1}) <= 1
        /\ \A c \in Racers(j) :
              /\ RotatedBy(c) => call[c].rows = 1
              /\ call[c].pc = "issue" => call[c].rows = 1
              /\ (Done(c) /\ call[c].rows = 0) =>
                    call[c].status = 401 /\ ErrorKind(call[c].kind) = "ReplayedToken"
        /\ (FairRace(j) /\ \A c \in Racers(j) : call[c].rows # -1) =>
              Cardinality({c \in Racers(j) : call[c].rows = 1}) = 1
        /\ (FairRace(j) /\ \A c \in Racers(j) :
                ErrorKind(call[c].kind) \notin {"StoreUnavailable", "SigningFailure"}) =>
              Cardinality({c \in Racers(j) : RotatedBy(c)}) = 1

\* two calls race for one jti: one has observed true and is still on its way,
\* the other has observed false and is rejected
C1_Witness ==
    \E c, d \in Calls, j \in DOMAIN parent :
        /\ c # d /\ Presents(c, j) /\ Presents(d, j)
        /\ call[c].pc = "issue" /\ call[c].rows = 1
        /\ Done(d) /\ call[d].rows = 0 /\ call[d].kind = "Replayed"
        /\ ~call[d].afterRotate /\ j \notin revoked

(* -------------------------------- C2 ----------------------------------- *)
\* a refresh call that presents a refresh token a completed rotation had
\* already replaced when the call began
Reuses(c) ==
    call[c].op = "refresh" /\ IsIssuedRefresh(call[c].cookie) /\ call[c].afterRotate

\* C2 as stated: rotate(R1) succeeds exactly once, and every rotate(R1)
\* after the first successful one yields Rejected(ReplayedToken) (here:
\* every one that the store does not fail).
C2_Original ==
    /\ \A j \in DOMAIN parent : Cardinality(RotationsOf(j)) <= 1
    /\ \A c \in Calls :
          (Reuses(c) /\ Done(c) /\ call[c].kind # "Store") =>
              call[c].status = 401 /\ ErrorKind(call[c].kind) = "ReplayedToken"

\* C2 as amended: rotate(R1) succeeds at most once, because a jti that was
\* rotated is never in the store again; every rotate(R1) after the first
\* successful one is refused without consuming or issuing anything, with
\* ReplayedToken when R1 still verifies and the store executes the DELETE,
\* with ExpiredToken when R1 has expired by more than the leeway, and with
\* StoreUnavailable when the DELETE fails.
C2_NeverRotatesAgain ==
    /\ \A j \in DOMAIN parent : Cardinality(RotationsOf(j)) <= 1
    /\ Rotated \cap Jtis(refresh_tokens) = {}
    /\ \A c \in Calls :
          Reuses(c) =>
              /\ call[c].pc \in {"consume", "done"}
              /\ call[c].rows \in {-1, 0}
              /\ Done(c) =>
                    /\ ErrorKind(call[c].kind) \in
                          {"ReplayedToken", "ExpiredToken", "StoreUnavailable"}
                    /\ call[c].status = IF call[c].kind = "Store" THEN 500 ELSE 401
                    /\ call[c].rows = 0 <=> call[c].kind = "Replayed"
                    /\ call[c].kind = "ExpiredSignature" =>
                          call[c].cookie.exp < now - Leeway
                    /\ refresh_tokens = call[c].before

\* a second rotate(R1) was rejected as replayed
C2_Witness ==
    \E c \in Calls : Reuses(c) /\ Done(c) /\ call[c].kind = "Replayed"

(* -------------------------------- C3 ----------------------------------- *)
\* C3: when rotate(R1[j1]) ends in Rotated with R2[j2], the store is the
\* store before the call without the record of j1 and with exactly one more
\* record, keyed j2 # j1 and with the subject of R1; the other records are
\* as they were.
C3_RotationReplacesOneRecord ==
    \A c \in Calls :
        RotatedBy(c) =>
            LET j1 == call[c].cookie.jti
                j2 == call[c].new_jti
                old == {r \in call[c].before : r.jti = j1}
                new == refresh_tokens \ call[c].before
            IN  /\ Cardinality(old) = 1
                /\ j2 # j1
                /\ j2 \notin Jtis(call[c].before)
                /\ Cardinality(new) = 1
                /\ \A r \in new :
                      /\ r.jti = j2
                      /\ to_string(r.user_id) = call[c].cookie.sub
                      /\ \A o \in old : r.user_id = o.user_id
                /\ refresh_tokens = (call[c].before \ old) \cup new
                /\ j1 \notin Jtis(refresh_tokens)

\* a rotation has ended in Rotated while the store held another record
C3_Witness ==
    \E c \in Calls :
        /\ RotatedBy(c)
        /\ \E r \in refresh_tokens : r.jti \notin {call[c].cookie.jti, call[c].new_jti}


(* -------------------------------- C4 ----------------------------------- *)
\* the step of slot c that receives a refresh request with an untampered
\* refresh token, and the step that runs its DELETE
ReceivesRefresh(c) ==
    call[c].pc = "idle" /\ call'[c].op = "refresh" /\ IsIssuedRefresh(call'[c].cookie)
RunsDelete(c) ==
    /\ call[c].op = "refresh" /\ call[c].pc = "consume"
    /\ call'[c].pc \in {"issue", "done"} /\ call'[c].kind # "Store"
\* the store holds a record for jti j / one that has not expired
HasRecord(j) == \E r \in refresh_tokens : r.jti = j
HasLiveRecord(j) == \E r \in refresh_tokens : r.jti = j /\ r.expires_at > now

\* C4 as stated: a correctly signed refresh token is accepted for rotation
\* if and only if the store holds a record for its jti whose expires_at is
\* still in the future.
C4_Original ==
    [][\A c \in Calls :
          RunsDelete(c) =>
              (call'[c].pc = "issue" <=> HasLiveRecord(call[c].cookie.jti))]_vars

\* C4 as amended: a correctly signed refresh token is accepted for rotation
\* if and only if the exp claim of the token is not more than 60 seconds
\* (the leeway of the decoder) in the past when the token is decoded and the
\* store holds a record for its jti when the DELETE runs; expires_at of the
\* record is not read.  A token whose record is missing is never rotated.
C4_AcceptedByTokenExpiryAndRecord ==
    [][\A c \in Calls :
          /\ ReceivesRefresh(c) =>
                /\ call'[c].pc = "consume" <=> call'[c].cookie.exp >= now - Leeway
                /\ call'[c].pc # "consume" =>
                      call'[c].pc = "done" /\ call'[c].kind = "ExpiredSignature"
          /\ RunsDelete(c) =>
                /\ call'[c].pc = "issue" <=> HasRecord(call[c].cookie.jti)
                /\ call'[c].rows = IF HasRecord(call[c].cookie.jti) THEN 1 ELSE 0
          /\ (call'[c].op = "refresh" /\ call'[c].pc = "issue") => call'[c].rows = 1
          /\ (call'[c].op = "refresh" /\ call'[c].status = 200) => call'[c].rows = 1]_vars

\* a refresh token is accepted although expires_at of its record has passed:
\* the call was decoded within the leeway and its DELETE found the record
C4_Witness ==
    \E c \in Calls :
        /\ call[c].op = "refresh" /\ call[c].pc = "issue" /\ call[c].rows = 1
        /\ call[c].cookie.exp >= now - Leeway
        /\ \E r \in call[c].before : r.jti = call[c].cookie.jti /\ r.expires_at <= now

(* -------------------------------- C5 ----------------------------------- *)
\* a logout call that presents the untampered refresh token a rotation issued
LogsOutRotated(c) ==
    /\ call[c].op = "logout" /\ IsIssuedRefresh(call[c].cookie)
    /\ parent[call[c].cookie.jti] # 0
\* a refresh call that presents such a token on which a logout had run its
\* DELETE when the call began
AfterLogout(c) ==
    /\ call[c].op = "refresh" /\ IsIssuedRefresh(call[c].cookie) /\ call[c].afterRevoke
    /\ parent[call[c].cookie.jti] # 0

\* C5 as stated: a logout that presents R2 deletes the record of j2, and
\* every rotate(R2) after it yields Rejected(ReplayedToken) (here: every
\* one that the store does not fail).
C5_Original ==
    /\ \A c \in Calls :
          (LogsOutRotated(c) /\ Done(c)) => call[c].cookie.jti \notin Jtis(refresh_tokens)
    /\ \A c \in Calls :
          (AfterLogout(c) /\ Done(c) /\ call[c].kind # "Store") =>
              call[c].status = 401 /\ ErrorKind(call[c].kind) = "ReplayedToken"

\* C5 as amended: a logout that presents R2 while R2 verifies (signature,
\* and exp not more than the leeway in the past) runs the DELETE for j2, and
\* the record of j2 is gone when the store executes it (a failure of the
\* store is ignored and leaves the record); after a logout whose DELETE the
\* store executed, j2 is never in the store again and every rotate(R2) is
\* refused without consuming or issuing anything: with ReplayedToken when R2
\* still verifies and the store executes the DELETE, with ExpiredToken when
\* R2 has expired by more than the leeway, with StoreUnavailable when the
\* DELETE fails.
C5_LogoutRevokes ==
    /\ revoked \cap Jtis(refresh_tokens) = {}
    /\ \A c \in Calls :
          (call[c].op = "logout" /\ Done(c) /\ call[c].rows # -1) =>
              /\ call[c].cookie.jti \notin Jtis(refresh_tokens)
              /\ IsIssuedRefresh(call[c].cookie) => call[c].cookie.jti \in revoked
    /\ \A c \in Calls :
          (call[c].op = "logout" /\ call[c].pc = "delete") =>
              IsIssuedRefresh(call[c].cookie)
    /\ \A c \in Calls :
          AfterLogout(c) =>
              /\ call[c].pc \in {"consume", "done"}
              /\ call[c].rows \in {-1, 0}
              /\ Done(c) =>
                    /\ ErrorKind(call[c].kind) \in
                          {"ReplayedToken", "ExpiredToken", "StoreUnavailable"}
                    /\ call[c].status = IF call[c].kind = "Store" THEN 500 ELSE 401
                    /\ call[c].rows = 0 <=> call[c].kind = "Replayed"
                    /\ refresh_tokens = call[c].before

\* rotate(R2) is rejected as replayed after a logout deleted the record of j2
C5_Witness ==
    \E c \in Calls :
        AfterLogout(c) /\ Done(c) /\ call[c].kind = "Replayed"


(* -------------------------------- C6 ----------------------------------- *)
\* C6 as stated: a refresh call whose token has its exp in the past is
\* rejected with ExpiredToken, also when the store holds a record for its
\* jti that has not expired, and the record stays in the store.
C6_Original ==
    [][\A c \in Calls :
          (ReceivesRefresh(c) /\ call'[c].cookie.exp < now) =>
              /\ call'[c].pc = "done" /\ call'[c].status = 401
              /\ ErrorKind(call'[c].kind) = "ExpiredToken"
              /\ refresh_tokens' = refresh_tokens]_vars

\* C6 as amended: a refresh call whose token has its exp more than 60
\* seconds (the leeway of the decoder) in the past is rejected as
\* unauthorized before any store operation, also when the store holds a
\* record for its jti, and the record stays; the decoder reports the expiry
\* (ExpiredSignature), the response is the one of a malformed or replayed
\* token.  A token whose exp is at most 60 seconds in the past is not
\* rejected as expired: it goes on to the DELETE.
C6_ExpiredBeyondLeeway ==
    [][\A c \in Calls :
          /\ (ReceivesRefresh(c) /\ call'[c].cookie.exp < now - Leeway) =>
                /\ call'[c].pc = "done" /\ call'[c].status = 401
                /\ ErrorKind(call'[c].kind) = "ExpiredToken"
                /\ call'[c].body = "Invalid refresh token"
                /\ call'[c].rows = -1
                /\ refresh_tokens' = refresh_tokens
          /\ (ReceivesRefresh(c) /\ call'[c].cookie.exp >= now - Leeway) =>
                call'[c].pc = "consume"
          /\ (call'[c].op = "refresh" /\ call'[c].pc = "done"
                /\ call'[c].kind \in {"InvalidToken", "InvalidSignature", "Json",
                                      "ExpiredSignature", "Replayed"}) =>
                call'[c].status = 401 /\ call'[c].body = "Invalid refresh token"]_vars

\* an expired refresh token was rejected while the store held its record
C6_Witness ==
    \E c \in Calls :
        /\ call[c].op = "refresh" /\ Done(c) /\ call[c].kind = "ExpiredSignature"
        /\ IsIssuedRefresh(call[c].cookie)
        /\ call[c].cookie.jti \in Jtis(call[c].before)
        /\ call[c].before = refresh_tokens

(* -------------------------------- C7 ----------------------------------- *)
\* the step of slot c that receives a logout request
ReceivesLogout(c) == call[c].pc = "idle" /\ call'[c].op = "logout"
\* the jti of the token can be read: it is a JWT with the refresh claims
JtiReadable(t) == t.form = "jwt" /\ t.use = "refresh"

\* C7 as stated: a logout that presents a refresh token whose jti can be
\* decoded calls consume(jti), whether or not signature and expiry are valid.
C7_Original ==
    [][\A c \in Calls :
          (ReceivesLogout(c) /\ JtiReadable(call'[c].cookie)) =>
              call'[c].pc = "delete"]_vars

\* C7 as amended: logout runs the DELETE for the jti of the presented refresh
\* token only when the token decodes under the default validation: the
\* signature verifies and exp is not more than 60 seconds in the past.  A
\* logout that presents an expired token or one with a bad signature runs no
\* store operation, leaves the record in the store and answers with the
\* clearing cookies.
C7_LogoutNeedsValidToken ==
    [][\A c \in Calls :
          ReceivesLogout(c) =>
              LET tok == call'[c].cookie
                  valid == /\ JtiReadable(tok) /\ tok.sig = "ok"
                           /\ tok.exp >= now - Leeway
              IN  /\ call'[c].pc = "delete" <=> valid
                  /\ ~valid =>
                        /\ call'[c].pc = "done" /\ call'[c].status = 200
                        /\ call'[c].rows = -1
                  /\ refresh_tokens' = refresh_tokens]_vars

\* a logout with a forged refresh token has returned and the record of its
\* jti is still in the store
C7_Witness ==
    \E c \in Calls :
        /\ call[c].op = "logout" /\ Done(c) /\ call[c].rows = -1
        /\ JtiReadable(call[c].cookie) /\ call[c].cookie.sig = "bad"
        /\ call[c].cookie.jti \in Jtis(refresh_tokens)


(* -------------------------------- C8 ----------------------------------- *)
\* a cookie that clears the cookie of that name
Clears(k, name) == k.name = name /\ k.value = Empty /\ k.expires = UNIX_EPOCH

\* C8: every logout call ends with the success outcome and the two clearing
\* cookies, whatever came before: no refresh cookie, a token that does not
\* decode, a DELETE that removed the record, one that found none, or one
\* that the store failed.
C8_LogoutAlwaysClears ==
    \A c \in Calls :
        call[c].op = "logout" =>
            /\ call[c].pc \in {"delete", "done"}
            /\ Done(c) =>
                  /\ call[c].status = 200 /\ call[c].kind = "Ok"
                  /\ Len(call[c].headers) = 2
                  /\ Clears(call[c].headers[1], "__Secure-access_token")
                  /\ Clears(call[c].headers[2], "__Secure-refresh_token")

\* a logout whose token decoded and whose DELETE the store failed has
\* returned, the record still in the store
C8_Witness ==
    \E c \in Calls :
        /\ call[c].op = "logout" /\ Done(c) /\ call[c].rows = -1
        /\ IsIssuedRefresh(call[c].cookie) /\ call[c].cookie.exp >= now - Leeway
        /\ call[c].cookie.jti \in Jtis(refresh_tokens)

(* -------------------------------- C9 ----------------------------------- *)
\* the contents the table can have within the bounds
Stores == SUBSET {Row(j, u, RefreshTTL) : j \in 1..MaxJti, u \in SmallIds}

\* C9: the outcome of me_handler for an access cookie at a time is the same
\* for every content of the store, the call leaves the store as it was, and
\* an access token that has not expired is accepted although no record of
\* its subject is in the store.
C9_AccessIndependentOfStore ==
    /\ \A tok \in Presentable("access"), tbl \in Stores :
          me_handler(tok, tbl, now) = me_handler(tok, refresh_tokens, now)
    /\ \A c \in Calls :
          (call[c].op = "me" /\ Done(c)) =>
              /\ refresh_tokens = call[c].before
              /\ call[c].rows = -1
              /\ (call[c].cookie \in issued /\ call[c].cookie.exp >= now) =>
                    call[c].status = 200 /\ call[c].user_id = call[c].cookie.sub

\* an access token is accepted after the record of its session was consumed
\* by a logout and no record is left in the store
C9_Witness ==
    \E c \in Calls :
        /\ call[c].op = "me" /\ Done(c) /\ call[c].status = 200
        /\ revoked # {} /\ refresh_tokens = {}

(* -------------------------------- C10 ---------------------------------- *)
\* the attributes of a cookie other than its value and its expiry
Attrs(k) ==
    [name |-> k.name, path |-> k.path, secure |-> k.secure,
     http_only |-> k.http_only, same_site |-> k.same_site, domain |-> k.domain]

\* the cookie pairs login and refresh can emit from the tokens issued so far
Encoded ==
    {create_cookies(a, r, cookie_domain, now) :
        a \in {t \in issued : t.use = "access"},
        r \in {t \in issued : t.use = "refresh"}}

\* C10: under each setting of the cookie domain the clearing cookies of
\* logout have the name, path, secure, http-only, same-site and domain of the
\* cookies create_cookies makes, and differ from them only by the empty
\* value and the expiry at the epoch.
C10_ClearMatchesEncode ==
    LET clr == clear_cookies(cookie_domain)
    IN  /\ \A enc \in Encoded : \A i \in 1..2 :
              /\ Attrs(clr[i]) = Attrs(enc[i])
              /\ clr[i] = [enc[i] EXCEPT !.value = Empty, !.expires = UNIX_EPOCH]
              /\ clr[i] # enc[i]
        /\ \A c \in Calls :
              Done(c) /\ call[c].status = 200 /\ call[c].op \in {"login", "refresh"} =>
                  \A i \in 1..2 : Attrs(call[c].headers[i]) = Attrs(clr[i])
        /\ \A c \in Calls :
              (call[c].op = "logout" /\ Done(c)) => call[c].headers = clr

\* a logout has cleared the cookies of a login under a configured domain
C10_Witness ==
    \E c \in Calls :
        /\ call[c].op = "logout" /\ Done(c) /\ IsIssuedRefresh(call[c].cookie)
        /\ cookie_domain # NoDomain /\ Encoded # {}


(* ------------------------------- routes -------------------------------- *)
\* the routes of the router, as paths
TokenRoute == <<"api", "v1", "auth", "github", "token">>
RefreshRoute == <<"api", "v1", "auth", "refresh">>
MeRoute == <<"api", "v1", "me">>
LogoutRoute == <<"api", "v1", "auth", "logout">>
ConfigRoute == <<"api", "v1", "config">>
Routes == {TokenRoute, RefreshRoute, MeRoute, LogoutRoute, ConfigRoute}

\* a client that honors the Path attribute sends a cookie with a request
\* when the cookie's path is the request path or a prefix of it that ends at
\* a segment boundary
path_match(cookie_path, request_path) ==
    /\ Len(cookie_path) <= Len(request_path)
    /\ SubSeq(request_path, 1, Len(cookie_path)) = cookie_path

\* the value of the cookie of that name that such a client sends to a route
\* out of the cookies it holds; Absent when it sends none
Attached(cookies, name, route) ==
    LET sent == {i \in DOMAIN cookies :
                    cookies[i].name = name /\ path_match(cookies[i].path, route)}
    IN  IF sent = {} THEN Absent ELSE cookies[CHOOSE i \in sent : TRUE].value

(* -------------------------------- C11 ---------------------------------- *)
\* a login or a rotation that has answered with a pair of cookies
Emits(c) == call[c].op \in {"login", "refresh"} /\ Done(c) /\ call[c].status = 200

\* C11: every pair of cookies of a login or a rotation has the refresh
\* cookie on the path of the rotation endpoint and the access cookie on the
\* root path, both secure, http-only and same-site none; a client that
\* honors the path sends the refresh token to the rotation endpoint and to
\* no other route, and the access token to every route.
C11_RefreshCookieScopedToRotation ==
    \A c \in Calls :
        Emits(c) =>
            LET access_cookie == call[c].headers[1]
                refresh_cookie == call[c].headers[2]
            IN  /\ Len(call[c].headers) = 2
                /\ access_cookie.name = "__Secure-access_token"
                /\ refresh_cookie.name = "__Secure-refresh_token"
                /\ access_cookie.path = RootPath
                /\ refresh_cookie.path = RefreshRoute
                /\ \A k \in {access_cookie, refresh_cookie} :
                      k.secure /\ k.http_only /\ k.same_site = "None"
                /\ refresh_cookie.value \in issued
                /\ IsIssuedRefresh(refresh_cookie.value)
                /\ refresh_cookie.value.jti = call[c].new_jti
                /\ \A route \in Routes :
                      /\ Attached(call[c].headers, "__Secure-refresh_token", route) =
                            IF route = RefreshRoute THEN refresh_cookie.value ELSE Absent
                      /\ Attached(call[c].headers, "__Secure-access_token", route) =
                            access_cookie.value

\* a rotation has answered with a new pair of cookies
C11_Witness ==
    \E c \in Calls : Emits(c) /\ call[c].op = "refresh" /\ call[c].new_jti # 0


(* -------------------------------- C12 ---------------------------------- *)
Unauthorized == {"MissingCredential", "MalformedToken", "ExpiredToken", "ReplayedToken"}
Infrastructure == {"StoreUnavailable", "SigningFailure", "UpstreamError"}
\* a call that has ended in a failing outcome
Failed(c) == Done(c) /\ call[c].status # 200

\* C12 as stated: the four credential kinds give the unauthorized outcome
\* and the three infrastructure kinds, a structured error reply of GitHub to
\* the exchange of the code among them, give the internal-failure outcome.
C12_Original ==
    \A c \in Calls :
        Failed(c) =>
            /\ ErrorKind(call[c].kind) \in Unauthorized => call[c].status = 401
            /\ ErrorKind(call[c].kind) \in Infrastructure => call[c].status = 500

\* C12 as amended: the four credential kinds give 401; a failure of the
\* store, of signing, of parsing the subject, and of the requests to GitHub
\* (the request fails or the reply does not deserialize) give 500; a
\* structured error reply of GitHub to the exchange of the code gives 400, as
\* does a redirect that is not allowed.  No step of a call runs twice: a step
\* that fails ends the call.
C12_OutcomeByKind ==
    [][\A c \in Calls :
          /\ (call'[c].pc = "done" /\ call'[c].status # 200) =>
                /\ call'[c].kind \in
                      {"MissingCredential", "InvalidToken", "InvalidSignature", "Json",
                       "ExpiredSignature", "Replayed", "Store", "Signing",
                       "UserIdFormat", "Upstream", "GitHubError", "RedirectNotAllowed"}
                /\ call'[c].status =
                      CASE call'[c].kind \in {"GitHubError", "RedirectNotAllowed"} -> 400
                        [] ErrorKind(call'[c].kind) \in Unauthorized -> 401
                        [] OTHER -> 500
          /\ (call[c].pc \notin {"idle", "done"} /\ call'[c] # call[c]) =>
                /\ call'[c].pc # call[c].pc
                /\ call'[c].op = call[c].op
                /\ call'[c].status # 0 <=> call'[c].pc = "done"
                /\ <<call[c].pc, call'[c].pc>> \in
                      {<<"upsert_user", "persist">>, <<"consume", "issue">>,
                       <<"upsert_user", "done">>, <<"persist", "done">>,
                       <<"consume", "done">>, <<"issue", "done">>,
                       <<"delete", "done">>}]_vars

\* a login has ended on a structured error reply of GitHub
C12_Witness ==
    \E c \in Calls :
        call[c].op = "login" /\ Failed(c) /\ call[c].kind = "GitHubError"


(* -------------------------------- C13 ---------------------------------- *)
\* the subject a call issues tokens for: the id GitHub gave at login, the
\* sub of the presented refresh token at rotation
SubjectOf(c) ==
    IF call[c].op = "login" THEN to_string(call[c].uid) ELSE call[c].cookie.sub

\* C13: the access and the refresh token a login or a rotation returns both
\* decode (signature and expiry) as long as the clock has not reached their
\* exp, each with the subject they were issued for, and the jti of the
\* refresh token is the jti of the record that was written for it.
C13_IssuedTokensVerify ==
    \A c \in Calls :
        Emits(c) =>
            LET access_token == call[c].headers[1].value
                refresh_token == call[c].headers[2].value
            IN  /\ now <= access_token.exp => Decode(access_token, "access", now) = "Ok"
                /\ now <= refresh_token.exp => Decode(refresh_token, "refresh", now) = "Ok"
                /\ access_token.sub = SubjectOf(c)
                /\ refresh_token.sub = SubjectOf(c)
                /\ refresh_token.jti = call[c].new_jti
                /\ Cardinality({r \in refresh_tokens : r.jti = refresh_token.jti}) = 1

\* a login of a subject whose id does not fit an i64 has returned its tokens
C13_Witness ==
    \E c \in Calls :
        /\ Emits(c) /\ call[c].op = "login" /\ call[c].uid > I64_MAX
        /\ now <= call[c].headers[1].value.exp


(* -------------------------------- C14 ---------------------------------- *)
\* signature and expiry of a token verify at the time of the clock
Verifies(t) == t.form = "jwt" /\ t.sig = "ok" /\ t.exp >= now - Leeway

\* C14: a refresh call goes from the cookie to the decoding, to the DELETE,
\* to the issue of the new pair, in that order, and ends once: without a
\* cookie it ends in MissingCredential before anything is verified; the
\* DELETE runs only after signature and expiry verified; the new pair is
\* issued and persisted only after the call's own DELETE removed a record;
\* and no call ends in Rotated otherwise.
C14_RefreshStepsInOrder ==
    [][\A c \in Calls :
          LET old == call[c]
              new == call'[c]
          IN  (new.op = "refresh" /\ new # old) =>
                /\ <<old.pc, new.pc>> \in
                      {<<"idle", "done">>, <<"idle", "consume">>,
                       <<"consume", "done">>, <<"consume", "issue">>,
                       <<"issue", "done">>}
                /\ old.pc = "idle" =>
                      /\ refresh_tokens' = refresh_tokens
                      /\ new.rows = -1
                      /\ new.cookie = Absent =>
                            /\ new.pc = "done" /\ new.status = 401
                            /\ new.kind = "MissingCredential"
                      /\ new.pc = "consume" =>
                            Verifies(new.cookie) /\ new.cookie.use = "refresh"
                      /\ new.pc = "done" => new.status = 401
                /\ old.pc = "consume" =>
                      /\ new.cookie = old.cookie
                      /\ new.pc = "issue" =>
                            /\ HasRecord(old.cookie.jti)
                            /\ new.rows = 1
                            /\ ~\E r \in refresh_tokens' : r.jti = old.cookie.jti
                      /\ new.pc = "done" =>
                            /\ new.status \in {401, 500}
                            /\ refresh_tokens' = refresh_tokens
                /\ old.pc = "issue" =>
                      /\ old.rows = 1 /\ new.rows = 1
                      /\ new.status \in {200, 500}
                      /\ new.status = 200 <=> refresh_tokens' # refresh_tokens
                /\ new.status = 200 => (old.pc = "issue" /\ new.rows = 1)
                /\ new.pc = "done" <=> new.status # 0]_vars

\* a refresh call has gone through all its steps and ended in Rotated
C14_Witness ==
    \E c \in Calls :
        /\ RotatedBy(c) /\ call[c].rows = 1 /\ Verifies(call[c].cookie)
        /\ call[c].new_jti \in Jtis(refresh_tokens)


(* -------------------------------- C15 ---------------------------------- *)
\* the step of slot c that receives a refresh request and rejects its token
\* at the decoding
RejectsAtDecode(c) ==
    /\ call[c].pc = "idle" /\ call'[c].op = "refresh" /\ call'[c].pc = "done"
    /\ call'[c].cookie # Absent

\* C15: a refresh call whose token does not decode (bad signature, expired,
\* no token at all) is rejected with the same outcome whatever the store
\* holds, a record of the jti of the token included, and whether or not the
\* store is available: the call runs no store operation and the store is as
\* it was.
C15_DecodeFailureIgnoresStore ==
    [][/\ \A tok \in Presentable("refresh"), tbl \in Stores :
             refresh_decode(tok, refresh_tokens, now).pc = "done" =>
                 refresh_decode(tok, tbl, now) = refresh_decode(tok, refresh_tokens, now)
       /\ \A c \in Calls :
             RejectsAtDecode(c) =>
                 /\ ~Verifies(call'[c].cookie) \/ call'[c].cookie.use # "refresh"
                 /\ call'[c].status = 401
                 /\ call'[c].body = "Invalid refresh token"
                 /\ ErrorKind(call'[c].kind) \in {"MalformedToken", "ExpiredToken"}
                 /\ call'[c].rows = -1
                 /\ refresh_tokens' = refresh_tokens
                 /\ consumed' = consumed
       /\ \A c \in Calls :
             (call[c].op = "refresh" /\ call[c].pc = "done") => call'[c].pc # "consume"]_vars

\* a refresh token with a bad signature was rejected while the store held a
\* record of its jti that had not expired
C15_Witness ==
    \E c \in Calls :
        /\ call[c].op = "refresh" /\ Done(c) /\ call[c].kind = "InvalidSignature"
        /\ HasLiveRecord(call[c].cookie.jti)
        /\ refresh_tokens = call[c].before


(* -------------------------------- C16 ---------------------------------- *)
\* C16: the store holds at most one record per jti; after persist(jti,
\* subject, expiry) the record of jti has that subject and that expiry, also
\* when a record of jti was there before; and the same persist once more
\* leaves the store as it is.
C16_Original ==
    /\ \A r1, r2 \in refresh_tokens : r1.jti = r2.jti => r1 = r2
    /\ \A c \in Calls :
          (call[c].op = "persist" /\ call[c].pc \in {"persisted", "persisted again"}) =>
              /\ Row(call[c].new_jti, call[c].uid, now + RefreshTTL) \in refresh_tokens
              /\ \A r \in call[c].before :
                    r.jti # call[c].new_jti => r \in refresh_tokens
              /\ call[c].pc = "persisted again" => refresh_tokens = call[c].before


(* -------------------------------- C17 ---------------------------------- *)
\* a refresh call that has ended in ReplayedToken
Replayed(c) == call[c].op = "refresh" /\ Done(c) /\ call[c].kind = "Replayed"

\* C17: a refresh call that ends in ReplayedToken leaves the store as it was
\* when the call began: nothing is deleted, nothing is created, and the
\* other records of the subject are still there, to be rotated.
C17_ReplayLeavesStore ==
    \A c \in Calls :
        Replayed(c) =>
            /\ call[c].rows = 0 /\ call[c].status = 401
            /\ refresh_tokens = call[c].before
            /\ call[c].cookie.jti \notin Jtis(call[c].before)
            /\ \A r \in call[c].before :
                  r.user_id = ParseI64(call[c].cookie.sub) => r \in refresh_tokens
            /\ call[c].new_jti = 0

\* a replay was rejected while the subject had another record in the store
C17_Witness ==
    \E c \in Calls :
        /\ Replayed(c)
        /\ \E r \in refresh_tokens : r.user_id = ParseI64(call[c].cookie.sub)


(* -------------------------------- C18 ---------------------------------- *)
\* a refresh call that has ended in an internal failure after its DELETE:
\* encode failed, the subject did not parse, or the INSERT failed
FailedAfterConsume(c) ==
    /\ call[c].op = "refresh" /\ Done(c) /\ call[c].status = 500
    /\ call[c].kind \in {"Signing", "UserIdFormat", "Store"} /\ call[c].rows = 1

\* C18: a refresh call that ends in an internal failure (signing, subject
\* that does not parse, store failure at persist) leaves the store as it was
\* before the call: the record of the presented token is still there for a
\* retry.
C18_Original ==
    \A c \in Calls :
        FailedAfterConsume(c) =>
            /\ refresh_tokens = call[c].before
            /\ call[c].cookie.jti \in Jtis(refresh_tokens)


(* -------------------------------- C19 ---------------------------------- *)
\* jti k was issued for jti j by a chain of rotations (or is j)
RECURSIVE Descends(_, _)
Descends(k, j) ==
    \/ k = j
    \/ k \in DOMAIN parent /\ parent[k] # 0 /\ Descends(parent[k], j)

\* slot c holds a logout and slot d a refresh call that have both returned,
\* both with the untampered refresh token of jti j, which no rotation had
\* replaced and no logout had deleted when the refresh call began
LogoutAndRefresh(c, d, j) ==
    /\ call[c].op = "logout" /\ Done(c)
    /\ IsIssuedRefresh(call[c].cookie) /\ call[c].cookie.jti = j
    /\ Presents(d, j) /\ Done(d)
    /\ ~call[d].afterRotate /\ ~call[d].afterRevoke

\* C19 as stated: once a logout and a refresh call with the same valid
\* refresh token have both completed, the store holds no record that
\* descends from that token (here: when the store executed the DELETE of the
\* logout and the refresh call did not end in an internal failure).
C19_Original ==
    \A c, d \in Calls, j \in DOMAIN parent :
        (LogoutAndRefresh(c, d, j) /\ call[c].rows # -1 /\ call[d].status # 500) =>
            \A r \in refresh_tokens : ~Descends(r.jti, j)

\* C19, what the two handlers do guarantee: once a logout and a refresh call with the same valid
\* refresh token have both completed, the record of that token is gone if
\* the store executed the DELETE of either call, and at most one of the two
\* DELETEs found it.  When the logout found it, the refresh call is rejected
\* and no record descends from the token: the session is ended.  When the
\* refresh call found it, the logout deleted nothing, and if the refresh
\* call ends in Rotated the record it wrote for the new token is not touched
\* by the logout: the new refresh token can be rotated and the session goes
\* on.
C19_LogoutRacesRefresh ==
    \A c, d \in Calls, j \in DOMAIN parent :
        LogoutAndRefresh(c, d, j) =>
            /\ (call[c].rows # -1 \/ call[d].rows # -1) => j \notin Jtis(refresh_tokens)
            /\ ~(call[c].rows = 1 /\ call[d].rows = 1)
            /\ call[c].rows = 1 =>
                  /\ ~RotatedBy(d)
                  /\ RotationsOf(j) = {}
                  /\ \A r \in refresh_tokens : ~Descends(r.jti, j)
            /\ RotatedBy(d) =>
                  /\ call[d].rows = 1 /\ call[c].rows \in {0, -1}
                  /\ parent[call[d].new_jti] = j
            /\ (\E r \in refresh_tokens : Descends(r.jti, j) /\ r.jti # j) =>
                  call[c].rows # 1

\* a logout and a rotation with the same token have both completed and the
\* record of the new token is in the store
C19_Witness ==
    \E c, d \in Calls, j \in DOMAIN parent :
        /\ LogoutAndRefresh(c, d, j) /\ call[c].rows = 0 /\ RotatedBy(d)
        /\ call[d].new_jti \in Jtis(refresh_tokens)


(* ------------------------------- client -------------------------------- *)
\* SpecClient: one client that keeps the cookies it is sent (call[1].jar)
\* and sends its requests one at a time with the cookies it holds.

\* the jar after a response: a cookie set replaces the one of the same name,
\* domain and path, and a cookie that has expired on arrival is dropped
StoreCookies(jar, set_cookies, clock) ==
    LET Same(k, n) == k.name = n.name /\ k.domain = n.domain /\ k.path = n.path
        Kept(k) == \A i \in DOMAIN set_cookies : ~Same(k, set_cookies[i])
        Fresh(k) == k.expires = NoExpiry \/ k.expires > clock
    IN  SelectSeq(jar, Kept) \o SelectSeq(set_cookies, Fresh)

\* the value of the cookie of that name in the jar, whatever its path
Held(jar, name) ==
    LET has == {i \in DOMAIN jar : jar[i].name = name}
    IN  IF has = {} THEN Absent ELSE jar[CHOOSE i \in has : TRUE].value

\* what the client sends to a route as the cookie of that name: a client
\* that honours the path attribute sends the cookies whose path the route
\* falls under, one that does not sends every cookie it holds
CookieSent(jar, name, route, honours) ==
    IF honours THEN Attached(jar, name, route) ELSE Held(jar, name)

\* the client takes the response and keeps its cookies
ClientReturn(c) ==
    /\ call[c].pc = "done"
    /\ call' = [call EXCEPT ![c] =
                  [Idle EXCEPT !.jar = StoreCookies(call[c].jar, call[c].headers, now)]]
    /\ UNCHANGED <<now, ticks, cookie_domain, refresh_tokens, users, issued,
                   parent, consumed, revoked>>

NextClient ==
    \/ \E id \in UserIds :
          LoginStart(1, Given(Url("https", "app.example")), [r |-> "ok", id |-> id])
    \/ \E db_ok \in BOOLEAN : LoginUpsertUser(1, db_ok)
    \/ \E sign_ok \in BOOLEAN, db_ok \in BOOLEAN : LoginPersist(1, sign_ok, db_ok)
    \/ \E honours \in BOOLEAN :
          RefreshStart(1, CookieSent(call[1].jar, "__Secure-refresh_token", RefreshRoute, honours))
    \/ \E db_ok \in BOOLEAN : RefreshConsume(1, db_ok)
    \/ \E sign_ok \in BOOLEAN, db_ok \in BOOLEAN : RefreshPersist(1, sign_ok, db_ok)
    \/ \E honours \in BOOLEAN :
          Me(1, CookieSent(call[1].jar, "__Secure-access_token", MeRoute, honours))
    \/ \E honours \in BOOLEAN :
          LogoutStart(1, CookieSent(call[1].jar, "__Secure-refresh_token", LogoutRoute, honours))
    \/ \E db_ok \in BOOLEAN : LogoutDelete(1, db_ok)
    \/ ClientReturn(1)

SpecClient == InitConc /\ [][NextClient]_vars

(* -------------------------------- C20 ---------------------------------- *)
\* slot c holds a logout that has returned, sent by a client that attached
\* its cookies by path while it held a refresh cookie whose record is the
\* one the store had for the session when the request came in
HonouringLogout(c) ==
    /\ call[c].op = "logout" /\ Done(c)
    /\ call[c].cookie = Attached(call[c].jar, "__Secure-refresh_token", LogoutRoute)
    /\ Held(call[c].jar, "__Secure-refresh_token") # Absent

\* C20 as stated: the logout request of a client that attaches cookies by
\* path carries the refresh cookie the client holds, and after the logout
\* the store holds no record of that cookie's jti.
C20_Original ==
    \A c \in Calls :
        HonouringLogout(c) =>
            LET held == Held(call[c].jar, "__Secure-refresh_token")
            IN  /\ call[c].cookie = held
                /\ held.jti \notin Jtis(refresh_tokens)


(* -------------------------------- C21 ---------------------------------- *)
\* a login session is named by the jti of the refresh token its login issued
Sessions == {j \in DOMAIN parent : parent[j] = 0}

\* the records the store holds for the refresh tokens of session s
RecordsOf(s) == {r \in refresh_tokens : Descends(r.jti, s)}

\* a refresh call of session s has run its DELETE and not yet returned from
\* the steps that follow it
InFlight(s) ==
    \E c \in Calls :
        /\ call[c].op = "refresh" /\ call[c].pc = "issue"
        /\ Descends(call[c].cookie.jti, s)

\* session s has ended: a logout deleted the record of one of its tokens
\* (the DELETE of a logout ran for it and no rotation had taken it)
Ended(s) ==
    \E j \in revoked :
        /\ Descends(j, s)
        /\ consumed[j] = 0
        /\ j \notin Jtis(refresh_tokens)

\* C21 as stated: in every reachable state each login session has at most
\* one record in the store, and it has none only between consume and
\* persist of an in-flight rotation or after it has ended.
C21_Original ==
    \A s \in Sessions :
        /\ Cardinality(RecordsOf(s)) <= 1
        /\ RecordsOf(s) = {} => (InFlight(s) \/ Ended(s))

\* C21, what the handlers do guarantee: each login session has at most one
\* record in the store, and each refresh token at most one successor; a
\* session has none only after a logout deleted its record or after a
\* rotation consumed the record of its last token without a successor,
\* which is the case while that rotation is in flight and stays the case
\* when its encode, parse or INSERT fails.
C21_SessionRecords ==
    \A s \in Sessions :
        /\ Cardinality(RecordsOf(s)) <= 1
        /\ \A j \in DOMAIN parent : Cardinality(RotationsOf(j)) <= 1
        /\ RecordsOf(s) = {} =>
              \/ Ended(s)
              \/ \E j \in DOMAIN parent :
                    /\ Descends(j, s) /\ consumed[j] = 1 /\ RotationsOf(j) = {}
        /\ InFlight(s) => RecordsOf(s) = {}

\* a session has lost its record with no rotation in flight and no logout
C21_Lost ==
    \E s \in Sessions :
        /\ RecordsOf(s) = {} /\ ~InFlight(s) /\ ~Ended(s)
        /\ \A c \in Calls : call[c].pc = "idle"


=============================================================================
